---- MODULE Spec2Model ----
(***************************************************************************)
(* Monster life cycle, investigator combat, movement, action dispatch,     *)
(* round driver and card deque of the Arkham Horror engine.                *)
(*                                                                         *)
(* Every action is one public call; the variable `last` records which call *)
(* was made, with which arguments, and whether it returned ("ok") or which *)
(* exception it raised.                                                    *)
(***************************************************************************)
EXTENDS Integers, Sequences, FiniteSets, TLC

(* ------------------------------ bounds -------------------------------- *)
\* largest health a monster is created with or set to
MaxHealth == 3
\* largest amount passed to take_damage
MaxAmount == 2
\* largest observation skill level handed to add_skill
MaxSkill == 1
\* largest health and sanity an investigator is created with or healed to
MaxVitals == 2

Monsters == {"m1", "m2"}
Investigators == {"a1", "a2"}
Spaces == {"s1", "s2"}

\* Python's None for the optional prey
None == "none"

\* MonsterStages, src/monster.py:26
MonsterStages == {"ready", "exhausted", "engaged"}

VARIABLES
    stage,             \* Monster._monster_health._state._stage
    engagement_stage,  \* Monster._monster_engagement._state._stage
    prey,              \* Monster._monster_engagement._prey
    health,            \* MonsterHealth.__health
    location,          \* MonsterActivation._location
    engaged_monsters,  \* Combat.__engaged_monsters, one list per investigator
    skills,            \* InvestigatorItems.__skill[OBSERVATION]: <<>> or <<level>>
    last,              \* the call made by the latest step and its outcome
    \* movement and doom warding
    inv_location,      \* Investigator._location (None until the setter runs)
    combat_location,   \* Combat._location, taken from the parent at construction
    money_tokens,      \* InvestigatorTokens.__focus_tokens["money_tokens"]
    money,             \* InvestigatorItems._money
    lore_skill,        \* InvestigatorItems.__skill[LORE]: <<>> or <<level>>
    doom_tokens,       \* Space._doom_tokens
    \* action dispatch and round driver
    investigators,     \* InvestigatorManager._investigators, keys in insertion order
    round_pc,          \* GameFlowManager.play_round: "idle", "running", "done", "raised"
    round_idx,         \* position of the outer for loop in the registry
    actions_deck,      \* DeckActionHandler._elems of the actor being played
    visited,           \* actors the outer loop has reached, in order
    dispatched,        \* <<actor, action>> pairs handed to the dispatcher, in order
    \* call structure of the Investigator facade
    stack,             \* frames of the running call, outermost first
    \* Deque
    nodes,             \* the QueueNode objects created so far: value, _next, _prev
    front_items,       \* Deque.__front_items (0 is None)
    rear_items,        \* Deque.__rear_items (0 is None)
    size,              \* Deque.__size
    rear,              \* the attribute `rear` that dequeue_rear assigns
    front,             \* the attribute `front` that dequeue_rear assigns
    unreturned,        \* nodes enqueued and not yet returned by a dequeue
    reference,         \* a list that had the same enqueues and dequeues applied
    \* PartialOrder and the map of the SpaceManager
    po_nodes,          \* PartialOrder._nodes
    po_edges,          \* PartialOrder._edges, a set of <<tail, head>>
    graph_nodes,       \* SpaceManager._graph._nodes
    graph_edges,       \* SpaceManager._graph._edges
    spaces_dict,       \* keys of SpaceManager.__spaces
    \* InvestigatorStatus and the token ledger
    inv_health,        \* InvestigatorStatus.__health
    inv_sanity,        \* InvestigatorStatus.__sanity
    is_defeated,       \* InvestigatorStatus._is_defeated
    focus_tokens       \* InvestigatorTokens.__focus_tokens without "money_tokens"

moveVars == <<inv_location, combat_location, money_tokens, money, lore_skill, doom_tokens>>
dispatchVars == <<investigators, round_pc, round_idx, actions_deck, visited, dispatched>>
callVars == <<stack>>
dequeVars == <<nodes, front_items, rear_items, size, rear, front, unreturned, reference>>
graphVars == <<po_nodes, po_edges, graph_nodes, graph_edges, spaces_dict>>
statusVars == <<inv_health, inv_sanity, is_defeated, focus_tokens>>

\* everything outside the monsters and the combat
restVars == <<moveVars, dispatchVars, callVars, dequeVars, graphVars, statusVars>>

\* the monsters and the combat
combatVars == <<stage, engagement_stage, prey, health, location, engaged_monsters, skills>>

vars == <<stage, engagement_stage, prey, health, location,
          engaged_monsters, skills, last, restVars>>

\* fields the monster owns
monsterVars == <<stage, engagement_stage, prey, health, location>>

\* a call without an integer argument records 0 as its arg
Call(op, a, m, arg, res) == [op |-> op, a |-> a, m |-> m, arg |-> arg, res |-> res]

(* ------------------------------ helpers ------------------------------- *)

\* Monster._damage, fixed at construction
Damage(m) == IF m = "m1" THEN 1 ELSE 2

\* MonsterActivation._evade_modifier, fixed at construction
EvadeModifier(m) == IF m = "m1" THEN 0 ELSE 0 - 1

\* MonsterHealth._validate_health: a negative health is refused
ValidateHealthNoCheck(v) == TRUE
ValidateHealth(v) == v >= 0

\* MonsterHealth.get_damaged, the health it leaves (the checks are in TakeDamage)
GetDamagedNoDouble(h, amount, stg) ==
    IF h - amount < 0 THEN 0 ELSE h - amount
GetDamaged(h, amount, stg) ==
    LET raw == IF stg = "exhausted" THEN h - amount * 2 ELSE h - amount
    IN  IF raw < 0 THEN 0 ELSE raw

\* `monster in self.__engaged_monsters`
InEngaged(a, m) == \E i \in DOMAIN engaged_monsters[a] : engaged_monsters[a][i] = m

\* list.remove(monster): drops the first occurrence
RECURSIVE ListRemove(_, _)
ListRemove(s, m) ==
    IF s = <<>> THEN <<>>
    ELSE IF Head(s) = m THEN Tail(s)
    ELSE <<Head(s)>> \o ListRemove(Tail(s), m)

(* ------------------------------- Init --------------------------------- *)

\* the board: Space objects with integer positions on the plane
MapSpaces == {"s1", "s2", "s3", "s4"}

\* Space._position, fixed at construction
Position(s) ==
    CASE s = "s1" -> <<0, 0>>
      [] s = "s2" -> <<1, 2>>
      [] s = "s3" -> <<3, 0>>
      [] OTHER    -> <<5, 1>>

\* Investigator.__new__ stores the space under _inv_location and leaves
\* _location (the attribute the location property reads) unassigned;
\* InvestigatorTokens.__init__ and InvestigatorItems.__new__ start the money
\* at 0 and the skills empty; Combat.__init__ copies its parent's location;
\* Space.__new__ takes the doom tokens as handed in.
MoveInit ==
    /\ inv_location = [a \in Investigators |-> None]
    /\ combat_location = [a \in Investigators |-> "s1"]
    /\ money_tokens = [a \in Investigators |-> 0]
    /\ money = [a \in Investigators |-> 0]
    /\ lore_skill = [a \in Investigators |-> <<>>]
    /\ doom_tokens = [s \in MapSpaces |-> 0]

\* InvestigatorManager.__new__: an empty registry; no round is being played
DispatchInit ==
    /\ investigators = <<>>
    /\ round_pc = "idle"
    /\ round_idx = 0
    /\ actions_deck = <<>>
    /\ visited = <<>>
    /\ dispatched = <<>>

\* no call is running
CallInit == stack = <<>>

\* Deque.__new__ without items: no node, both ends None (0), size 0; the
\* attributes `rear` and `front` do not exist yet and are written before
\* they are read, so they start as None here
DequeInit ==
    /\ nodes = <<>>
    /\ front_items = 0
    /\ rear_items = 0
    /\ size = 0
    /\ rear = 0
    /\ front = 0
    /\ unreturned = {}
    /\ reference = <<>>

\* DiGraph.__new__ (also under PartialOrder): no node, no edge;
\* SpaceManager.__init__: an empty DiGraph and an empty name dictionary
GraphInit ==
    /\ po_nodes = {}
    /\ po_edges = {}
    /\ graph_nodes = {}
    /\ graph_edges = {}
    /\ spaces_dict = {}

\* the keys of InvestigatorTokens.__focus_tokens
TokenTypes == {"horror_tokens", "focus_tokens", "money_tokens", "remnant_tokens",
               "clue_tokens", "doom_tokens", "activation_token"}

\* InvestigatorStatus.__new__(MaxVitals, MaxVitals) with is_defeated left at
\* its default, and InvestigatorTokens.__init__: every counter 0
StatusInit ==
    /\ inv_health = [a \in Investigators |-> MaxVitals]
    /\ inv_sanity = [a \in Investigators |-> MaxVitals]
    /\ is_defeated = [a \in Investigators |-> FALSE]
    /\ focus_tokens = [a \in Investigators |-> [t \in TokenTypes \ {"money_tokens"} |-> 0]]

\* Monster.__new__: state ready, health as given (validated), engagement and
\* activation as handed in; each investigator starts with an empty engaged
\* list and no skills.
MonsterInit ==
    /\ stage = [m \in Monsters |-> "ready"]
    /\ engagement_stage = [m \in Monsters |-> "ready"]
    /\ prey = [m \in Monsters |-> None]
    /\ health \in [Monsters -> {h \in 0..MaxHealth : ValidateHealth(h)}]
    /\ location = [m \in Monsters |-> "s1"]
    /\ engaged_monsters = [a \in Investigators |-> <<>>]
    /\ skills = [a \in Investigators |-> <<>>]
    /\ last = Call("new", None, None, 0, "ok")

Init ==
    /\ MonsterInit
    /\ MoveInit
    /\ DispatchInit
    /\ CallInit
    /\ DequeInit
    /\ GraphInit
    /\ StatusInit

(* ------------------------- Monster operations ------------------------- *)

\* Monster.engage with MonsterEngagement.start_engagement
EngageNoGuard(m, a) ==
    /\ prey' = [prey EXCEPT ![m] = a]
    /\ stage' = [stage EXCEPT ![m] = "engaged"]
    /\ last' = Call("engage", a, m, 0, "ok")
    /\ UNCHANGED <<engagement_stage, health, location, engaged_monsters, skills, restVars>>
Engage(m, a) ==
    IF stage[m] # "ready" \/ engagement_stage[m] # "ready"
    THEN /\ last' = Call("engage", a, m, 0, "AttributeError")
         /\ UNCHANGED <<monsterVars, engaged_monsters, skills, restVars>>
    ELSE /\ prey' = [prey EXCEPT ![m] = a]
         /\ stage' = [stage EXCEPT ![m] = "engaged"]
         /\ last' = Call("engage", a, m, 0, "ok")
         /\ UNCHANGED <<engagement_stage, health, location, engaged_monsters, skills, restVars>>

\* Monster.exhaust
ExhaustNoGuard(m) ==
    /\ stage' = [stage EXCEPT ![m] = "exhausted"]
    /\ last' = Call("exhaust", None, m, 0, "ok")
    /\ UNCHANGED <<engagement_stage, prey, health, location, engaged_monsters, skills, restVars>>
Exhaust(m) ==
    IF stage[m] # "engaged"
    THEN /\ last' = Call("exhaust", None, m, 0, "AttributeError")
         /\ UNCHANGED <<monsterVars, engaged_monsters, skills, restVars>>
    ELSE /\ stage' = [stage EXCEPT ![m] = "exhausted"]
         /\ last' = Call("exhaust", None, m, 0, "ok")
         /\ UNCHANGED <<engagement_stage, prey, health, location, engaged_monsters, skills, restVars>>

\* Monster.disengage with MonsterEngagement.no_fight.  no_fight tests the
\* MonsterState held by the engagement, which is not the one Monster.__new__
\* builds for the health, so it still reads the stage it was constructed with.
Disengage(m) ==
    IF stage[m] # "engaged" \/ engagement_stage[m] # "engaged"
    THEN /\ last' = Call("disengage", None, m, 0, "AttributeError")
         /\ UNCHANGED <<monsterVars, engaged_monsters, skills, restVars>>
    ELSE /\ prey' = [prey EXCEPT ![m] = None]
         /\ stage' = [stage EXCEPT ![m] = "ready"]
         /\ last' = Call("disengage", None, m, 0, "ok")
         /\ UNCHANGED <<engagement_stage, health, location, engaged_monsters, skills, restVars>>

\* Monster.ready
ReadyNoGuard(m) ==
    /\ stage' = [stage EXCEPT ![m] = "ready"]
    /\ last' = Call("ready", None, m, 0, "ok")
    /\ UNCHANGED <<engagement_stage, prey, health, location, engaged_monsters, skills, restVars>>
Ready(m) ==
    IF stage[m] # "exhausted"
    THEN /\ last' = Call("ready", None, m, 0, "AttributeError")
         /\ UNCHANGED <<monsterVars, engaged_monsters, skills, restVars>>
    ELSE /\ stage' = [stage EXCEPT ![m] = "ready"]
         /\ last' = Call("ready", None, m, 0, "ok")
         /\ UNCHANGED <<engagement_stage, prey, health, location, engaged_monsters, skills, restVars>>

\* Monster.take_damage -> MonsterHealth.get_damaged
TakeDamage(m, amount) ==
    IF amount < 0
    THEN /\ last' = Call("take_damage", None, m, amount, "NegativeValueError")
         /\ UNCHANGED <<monsterVars, engaged_monsters, skills, restVars>>
    ELSE IF health[m] <= 0
    THEN /\ last' = Call("take_damage", None, m, amount, "AttributeError")
         /\ UNCHANGED <<monsterVars, engaged_monsters, skills, restVars>>
    ELSE /\ health' = [health EXCEPT ![m] = GetDamaged(health[m], amount, stage[m])]
         /\ last' = Call("take_damage", None, m, amount, "ok")
         /\ UNCHANGED <<stage, engagement_stage, prey, location, engaged_monsters, skills, restVars>>

\* MonsterHealth.health setter -> __set_health -> _validate_health
SetHealth(m, val) ==
    IF ~ValidateHealth(val)
    THEN /\ last' = Call("set_health", None, m, val, "NegativeValueError")
         /\ UNCHANGED <<monsterVars, engaged_monsters, skills, restVars>>
    ELSE /\ health' = [health EXCEPT ![m] = val]
         /\ last' = Call("set_health", None, m, val, "ok")
         /\ UNCHANGED <<stage, engagement_stage, prey, location, engaged_monsters, skills, restVars>>

\* Monster.attack: returns the fixed damage (recorded as the call's arg)
MonsterAttackAnyState(m) ==
    /\ last' = Call("attack", None, m, Damage(m), "ok")
    /\ UNCHANGED <<monsterVars, engaged_monsters, skills, restVars>>
MonsterAttack(m) ==
    /\ IF stage[m] # "engaged"
       THEN last' = Call("attack", None, m, 0, "AttributeError")
       ELSE last' = Call("attack", None, m, Damage(m), "ok")
    /\ UNCHANGED <<monsterVars, engaged_monsters, skills, restVars>>

\* Monster.set_location -> MonsterActivation.set_location
SetLocation(m, loc) ==
    /\ location' = [location EXCEPT ![m] = loc]
    /\ last' = Call("set_location", None, m, 0, "ok")
    /\ UNCHANGED <<stage, engagement_stage, prey, health, engaged_monsters, skills, restVars>>

(* ---------------------- Investigator operations ----------------------- *)

\* InvestigatorItems.add_skill for the observation skill
AddSkill(a, level) ==
    /\ IF skills[a] # <<>>
       THEN /\ last' = Call("add_skill", a, None, level, "KeyError")
            /\ UNCHANGED skills
       ELSE /\ skills' = [skills EXCEPT ![a] = <<level>>]
            /\ last' = Call("add_skill", a, None, level, "ok")
    /\ UNCHANGED <<monsterVars, engaged_monsters, restVars>>

\* Combat.engaged_monsters hands out the list itself and no operation of the
\* engine inserts into it: the caller appends the monster it has just engaged
\* (insertion discipline: the monster is engaged with this investigator and
\* is not yet in the list).
AppendEngaged(a, m) ==
    /\ stage[m] = "engaged"
    /\ prey[m] = a
    /\ ~InEngaged(a, m)
    /\ engaged_monsters' = [engaged_monsters EXCEPT ![a] = Append(@, m)]
    /\ last' = Call("append_engaged", a, m, 0, "ok")
    /\ UNCHANGED <<monsterVars, skills, restVars>>

\* Combat.attack_monster, as called under the name `op`:
\* `monster._monster_health.health -= 1` goes through the health setter
AttackNoMembership(a, m, op) ==
    IF ~ValidateHealth(health[m] - 1)
    THEN /\ last' = Call(op, a, m, 0, "NegativeValueError")
         /\ UNCHANGED <<monsterVars, engaged_monsters, skills, restVars>>
    ELSE /\ health' = [health EXCEPT ![m] = health[m] - 1]
         /\ last' = Call(op, a, m, 0, "ok")
         /\ UNCHANGED <<stage, engagement_stage, prey, location, engaged_monsters, skills, restVars>>
AttackMonster(a, m, op) ==
    IF ~InEngaged(a, m)
    THEN /\ last' = Call(op, a, m, 0, "ValueError")
         /\ UNCHANGED <<monsterVars, engaged_monsters, skills, restVars>>
    ELSE IF ~ValidateHealth(health[m] - 1)
    THEN /\ last' = Call(op, a, m, 0, "NegativeValueError")
         /\ UNCHANGED <<monsterVars, engaged_monsters, skills, restVars>>
    ELSE /\ health' = [health EXCEPT ![m] = health[m] - 1]
         /\ last' = Call(op, a, m, 0, "ok")
         /\ UNCHANGED <<stage, engagement_stage, prey, location, engaged_monsters, skills, restVars>>

\* Combat.attack_monster called on the investigator's Combat object
CombatAttackMonster(a, m) == AttackMonster(a, m, "combat_attack_monster")

\* AttackMonsterCommand.__init__ stores the investigator and the monster only;
\* `_combat` is a class annotation that no code assigns
CommandHasCombat == FALSE

\* Investigator.attack_monster -> AttackMonsterCommand(...).execute_action()
InvAttackMonster(a, m) ==
    IF ~CommandHasCombat
    THEN /\ last' = Call("attack_monster", a, m, 0, "AttributeError")
         /\ UNCHANGED <<monsterVars, engaged_monsters, skills, restVars>>
    ELSE AttackMonster(a, m, "attack_monster")

\* `obs_s.level` in Combat.evade_monster: Skill.level is a method and it is
\* not called, so the value is the bound method, carrying the level it would
\* return
ObservationLevel(a) == [kind |-> "method", value |-> skills[a][1]]

\* isinstance(obl, int)
IsInstanceInt(obl) == obl.kind = "int"

\* Monster names `_monster_state` in its annotations; Monster.__new__ never
\* assigns it
HasMonsterState(m) == FALSE

\* num_rolls = max(obl + monster.evade_modifier(), 1)
NumRolls(obl, m) == IF obl.value + EvadeModifier(m) > 1 THEN obl.value + EvadeModifier(m) ELSE 1

\* Investigator.evade_monster -> Combat.evade_monster
EvadeMonster(a, m) ==
    IF ~InEngaged(a, m)
    THEN /\ last' = Call("evade_monster", a, m, 0, "ValueError")
         /\ UNCHANGED <<monsterVars, engaged_monsters, skills, restVars>>
    ELSE IF skills[a] = <<>>
    THEN /\ last' = Call("evade_monster", a, m, 0, "KeyError")
         /\ UNCHANGED <<monsterVars, engaged_monsters, skills, restVars>>
    ELSE IF ~IsInstanceInt(ObservationLevel(a))
    THEN /\ last' = Call("evade_monster", a, m, 0, "AttributeError")
         /\ UNCHANGED <<monsterVars, engaged_monsters, skills, restVars>>
    ELSE \E num_succ \in 0..NumRolls(ObservationLevel(a), m) :
         IF num_succ > 0
         THEN /\ engaged_monsters' = [engaged_monsters EXCEPT ![a] = ListRemove(@, m)]
              /\ IF HasMonsterState(m)
                 THEN /\ stage' = [stage EXCEPT ![m] = "exhausted"]
                      /\ last' = Call("evade_monster", a, m, 0, "ok")
                 ELSE /\ last' = Call("evade_monster", a, m, 0, "AttributeError")
                      /\ UNCHANGED stage
              /\ UNCHANGED <<engagement_stage, prey, health, location, skills, restVars>>
         ELSE AttackMonster(a, m, "evade_monster")

(* --------------------------- specifications --------------------------- *)

\* the monster's own interface
Next ==
    \/ \E m \in Monsters, a \in Investigators : Engage(m, a)
    \/ \E m \in Monsters : Exhaust(m)
    \/ \E m \in Monsters : Disengage(m)
    \/ \E m \in Monsters : Ready(m)
    \/ \E m \in Monsters, amount \in -1..MaxAmount : TakeDamage(m, amount)
    \/ \E m \in Monsters, val \in -1..MaxHealth : SetHealth(m, val)
    \/ \E m \in Monsters : MonsterAttack(m)
    \/ \E m \in Monsters, loc \in Spaces : SetLocation(m, loc)

Spec == Init /\ [][Next]_vars

\* investigators fighting a monster: the monsters of CombatMonsters are
\* engaged, attacked and evaded, the others stay as constructed
CombatMonsters == {"m1"}

InitCombat ==
    /\ Init
    /\ \A m \in Monsters \ CombatMonsters : health[m] = MaxHealth

NextCombat ==
    \/ \E m \in CombatMonsters, a \in Investigators : Engage(m, a)
    \/ \E m \in CombatMonsters : Exhaust(m)
    \/ \E m \in CombatMonsters : Disengage(m)
    \/ \E m \in CombatMonsters : Ready(m)
    \/ \E m \in CombatMonsters, amount \in -1..MaxAmount : TakeDamage(m, amount)
    \/ \E m \in CombatMonsters, val \in -1..MaxHealth : SetHealth(m, val)
    \/ \E a \in Investigators, level \in 1..MaxSkill : AddSkill(a, level)
    \/ \E a \in Investigators, m \in CombatMonsters : AppendEngaged(a, m)
    \/ \E a \in Investigators, m \in CombatMonsters : CombatAttackMonster(a, m)
    \/ \E a \in Investigators, m \in CombatMonsters : InvAttackMonster(a, m)
    \/ \E a \in Investigators, m \in CombatMonsters : EvadeMonster(a, m)

SpecCombat == InitCombat /\ [][NextCombat]_vars

(* ------------------------ monster life cycle -------------------------- *)

\* the transition table: <<source state, call, target state>>
LifeCycleEdges ==
    { <<"ready", "engage", "engaged">>,
      <<"engaged", "exhaust", "exhausted">>,
      <<"engaged", "disengage", "ready">>,
      <<"exhausted", "ready", "ready">> }

Transitions == {e[2] : e \in LifeCycleEdges}
RequiredStage(op) == (CHOOSE e \in LifeCycleEdges : e[2] = op)[1]
TargetStage(op) == (CHOOSE e \in LifeCycleEdges : e[2] = op)[3]

\* C1: a monster is created ready, is always in exactly one of the three
\* states, and its state changes only by a successful engage, exhaust,
\* disengage or ready call on that monster, along that call's edge of the
\* table; take_damage, attack, set_location, the health setter and rejected
\* calls never change it.
C1_StateChangesOnlyAlongEdges ==
    /\ \A m \in Monsters : stage[m] = "ready"
    /\ [](\A m \in Monsters : stage[m] \in MonsterStages)
    /\ [][\A m \in Monsters :
            stage'[m] # stage[m] =>
                /\ last'.m = m
                /\ last'.res = "ok"
                /\ <<stage[m], last'.op, stage'[m]>> \in LifeCycleEdges]_vars

\* a monster that went round the cycle: ready() has just returned on it
C1_Witness ==
    \E m \in Monsters :
        /\ last.op = "ready" /\ last.m = m /\ last.res = "ok"
        /\ stage[m] = "ready"

\* C2: each transition called in its required source state succeeds and
\* produces the target state and side effect of the table (engage sets the
\* prey to the actor, disengage clears it, exhaust and ready leave it).
C2_TransitionsSucceed ==
    [][\A m \in Monsters :
        (last'.m = m /\ last'.op \in Transitions /\ stage[m] = RequiredStage(last'.op)) =>
            /\ last'.res = "ok"
            /\ stage'[m] = TargetStage(last'.op)
            /\ prey'[m] = CASE last'.op = "engage" -> last'.a
                            [] last'.op = "disengage" -> None
                            [] OTHER -> prey[m]]_vars

\* C3: a transition called on a monster that is not in the required source
\* state raises, and the monster's state, prey and health stay as they were.
C3_RejectedTransitionChangesNothing ==
    [][\A m \in Monsters :
        (last'.m = m /\ last'.op \in Transitions /\ stage[m] # RequiredStage(last'.op)) =>
            /\ last'.res = "AttributeError"
            /\ stage'[m] = stage[m]
            /\ prey'[m] = prey[m]
            /\ health'[m] = health[m]]_vars

\* ready() has just been refused on an engaged monster that has a prey
C3_Witness ==
    \E m \in Monsters :
        /\ last.op = "ready" /\ last.m = m /\ last.res = "AttributeError"
        /\ stage[m] = "engaged"
        /\ prey[m] \in Investigators

\* C4: a monster has at most one prey; engage(actor) on a ready monster sets
\* the prey to that actor, and engage on an engaged or exhausted monster is
\* rejected with the prey unchanged.
C4_AtMostOnePrey ==
    /\ [](\A m \in Monsters : prey[m] \in Investigators \cup {None})
    /\ [][\A m \in Monsters, a \in Investigators :
            (last'.op = "engage" /\ last'.m = m /\ last'.a = a) =>
                IF stage[m] = "ready"
                THEN last'.res = "ok" /\ prey'[m] = a
                ELSE last'.res = "AttributeError" /\ prey'[m] = prey[m]]_vars

\* a second investigator has just been refused by a monster engaged with the
\* first
C4_Witness ==
    \E m \in Monsters, a \in Investigators :
        /\ last.op = "engage" /\ last.m = m /\ last.a = a
        /\ last.res = "AttributeError"
        /\ stage[m] = "engaged"
        /\ prey[m] \in Investigators \ {a}

\* C10: take_damage(amount) with amount >= 0 on a monster with health > 0
\* leaves max(0, health - 2*amount) when the monster is exhausted and
\* max(0, health - amount) otherwise; a negative amount or a monster at
\* health 0 is rejected with the health unchanged.
C10_TakeDamage ==
    [][\A m \in Monsters :
        (last'.op = "take_damage" /\ last'.m = m) =>
            LET amount == last'.arg
                dealt == IF stage[m] = "exhausted" THEN 2 * amount ELSE amount
            IN  IF amount >= 0 /\ health[m] > 0
                THEN /\ last'.res = "ok"
                     /\ health'[m] = IF health[m] - dealt > 0 THEN health[m] - dealt ELSE 0
                ELSE /\ last'.res # "ok"
                     /\ health'[m] = health[m]]_vars

\* an exhausted monster has just taken 1 damage and has 1 health left
C10_Witness ==
    \E m \in Monsters :
        /\ last.op = "take_damage" /\ last.m = m /\ last.res = "ok"
        /\ last.arg = 1
        /\ stage[m] = "exhausted"
        /\ health[m] = 1

(* ------------------------------ combat -------------------------------- *)

\* C5: evade_monster on a monster of the actor's engaged set ends in exactly
\* one of two outcomes: (a) the monster is removed from the set, is exhausted
\* and keeps its health; (b) the monster is still in the set, still engaged,
\* and has lost exactly 1 health.  (Stated for an actor that has the
\* observation skill and a monster with health left.)
C5_EvadeTwoOutcomes ==
    [][\A a \in Investigators, m \in Monsters :
        (last'.op = "evade_monster" /\ last'.a = a /\ last'.m = m /\ InEngaged(a, m)
            /\ skills[a] # <<>> /\ health[m] >= 1) =>
            \/ /\ ~(\E i \in DOMAIN engaged_monsters'[a] : engaged_monsters'[a][i] = m)
               /\ stage'[m] = "exhausted"
               /\ health'[m] = health[m]
            \/ /\ \E i \in DOMAIN engaged_monsters'[a] : engaged_monsters'[a][i] = m
               /\ stage'[m] = "engaged"
               /\ health'[m] = health[m] - 1]_vars

\* C6: Investigator.attack_monster on a monster of the actor's engaged set
\* with health >= 1 reduces its health by exactly 1 and changes nothing else.
C6_InvestigatorAttackDealsOne ==
    [][\A a \in Investigators, m \in Monsters :
        (last'.op = "attack_monster" /\ last'.a = a /\ last'.m = m
            /\ InEngaged(a, m) /\ health[m] >= 1) =>
            /\ last'.res = "ok"
            /\ health' = [health EXCEPT ![m] = health[m] - 1]
            /\ UNCHANGED <<stage, prey, engaged_monsters, skills, restVars>>]_vars

\* C7: Combat.attack_monster against a monster whose state is ready or
\* exhausted raises and leaves its health unchanged.
C7_AttackOnlyEngagedState ==
    [][\A a \in Investigators, m \in Monsters :
        (last'.op = "combat_attack_monster" /\ last'.a = a /\ last'.m = m
            /\ stage[m] # "engaged") =>
            /\ last'.res # "ok"
            /\ health'[m] = health[m]]_vars

\* C8: attack_monster and evade_monster with a monster that is not in the
\* actor's engaged set raise and leave the monster's health, the monster's
\* state and the engaged sets unchanged.
C8_UnengagedRejected ==
    [][\A a \in Investigators, m \in Monsters :
        (last'.op \in {"combat_attack_monster", "evade_monster"}
            /\ last'.a = a /\ last'.m = m /\ ~InEngaged(a, m)) =>
            /\ last'.res = "ValueError"
            /\ UNCHANGED <<health, stage, engaged_monsters>>]_vars

\* an investigator's attack has just been refused on a monster with health
\* left that is in the other investigator's engaged list
C8_Witness ==
    \E a \in Investigators, b \in Investigators, m \in Monsters :
        /\ a # b
        /\ last.op = "combat_attack_monster" /\ last.a = a /\ last.m = m
        /\ last.res = "ValueError"
        /\ ~InEngaged(a, m)
        /\ InEngaged(b, m)
        /\ health[m] >= 1

\* C9: a monster's health is never negative, whatever take_damage,
\* Combat.attack_monster and health-setter calls are made.
C9_HealthNonNegative == \A m \in Monsters : health[m] >= 0

\* an attack on a monster at health 0 has just been refused
C9_Witness ==
    \E a \in Investigators, m \in Monsters :
        /\ last.op = "combat_attack_monster" /\ last.a = a /\ last.m = m
        /\ last.res = "NegativeValueError"
        /\ health[m] = 0

(* ---------------------- movement and doom warding --------------------- *)

\* largest amount of money an investigator is ever given
MaxMoney == 2
\* largest number of doom tokens put on a space
MaxDoom == 1

\* a call that names a space: s is the space, d the distance the call
\* computed (0 when it computed none)
SpaceCall(op, a, s, d, res) ==
    [op |-> op, a |-> a, m |-> None, s |-> s, d |-> d, arg |-> 0, res |-> res]

\* int(math.sqrt(n)) for a non-negative integer n
ISqrt(n) == CHOOSE r \in 0..n : r * r <= n /\ (r + 1) * (r + 1) > n

\* Move.calc_distance: the Euclidean distance, truncated
CalcDistance(start, end) ==
    LET diff_x_axis == Position(start)[1] - Position(end)[1]
        diff_y_axis == Position(start)[2] - Position(end)[2]
    IN  ISqrt(diff_x_axis * diff_x_axis + diff_y_axis * diff_y_axis)

\* Move.move: additional_cost = distance - 2
AdditionalCostFlat(distance) == 1
AdditionalCost(distance) == distance - 2

\* InvestigatorItems.spend_money: the tests that raise ValueError (the token
\* count is 0, or smaller than the amount); the walrus binds `value` to the
\* comparison's result, so `value < 0` never raises
SpendMoneyRaisesZeroOnly(tokens, amount) == tokens = 0
SpendMoneyRaises(tokens, amount) == tokens = 0 \/ tokens < amount

\* Investigator.location setter
SetInvLocation(a, s) ==
    /\ inv_location' = [inv_location EXCEPT ![a] = s]
    /\ last' = SpaceCall("set_location", a, s, 0, "ok")
    /\ UNCHANGED <<combatVars, graphVars, statusVars, combat_location, money_tokens, money, lore_skill,
                   doom_tokens, dispatchVars, callVars, dequeVars>>

\* InvestigatorItems.add_money: raises both the money and the money tokens
AddMoney(a, amount) ==
    /\ money[a] + amount <= MaxMoney
    /\ IF amount < 0
       THEN /\ last' = Call("add_money", a, None, amount, "NegativeValueError")
            /\ UNCHANGED <<money, money_tokens>>
       ELSE /\ money' = [money EXCEPT ![a] = @ + amount]
            /\ money_tokens' = [money_tokens EXCEPT ![a] = @ + amount]
            /\ last' = Call("add_money", a, None, amount, "ok")
    /\ UNCHANGED <<combatVars, graphVars, statusVars, inv_location, combat_location, lore_skill,
                   doom_tokens, dispatchVars, callVars, dequeVars>>

\* Move.move(investigator, new_space); reading investigator.location before
\* the setter has run raises AttributeError
Move(a, new_space) ==
    /\ IF inv_location[a] = None
       THEN /\ last' = SpaceCall("move", a, new_space, 0, "AttributeError")
            /\ UNCHANGED <<inv_location, money_tokens>>
       ELSE LET distance == CalcDistance(inv_location[a], new_space)
            IN  IF distance > 4
                THEN /\ last' = SpaceCall("move", a, new_space, distance, "ValueError")
                     /\ UNCHANGED <<inv_location, money_tokens>>
                ELSE IF distance <= 2
                THEN /\ inv_location' = [inv_location EXCEPT ![a] = new_space]
                     /\ last' = SpaceCall("move", a, new_space, distance, "ok")
                     /\ UNCHANGED money_tokens
                ELSE IF SpendMoneyRaises(money_tokens[a], AdditionalCost(distance))
                THEN /\ last' = SpaceCall("move", a, new_space, distance, "ValueError")
                     /\ UNCHANGED <<inv_location, money_tokens>>
                ELSE /\ money_tokens' = [money_tokens EXCEPT
                                           ![a] = @ - AdditionalCost(distance)]
                     /\ inv_location' = [inv_location EXCEPT ![a] = new_space]
                     /\ last' = SpaceCall("move", a, new_space, distance, "ok")
    /\ UNCHANGED <<combatVars, graphVars, statusVars, combat_location, money, lore_skill, doom_tokens,
                   dispatchVars, callVars, dequeVars>>

\* InvestigatorItems.add_skill for the lore skill
AddLoreSkill(a, level) ==
    /\ IF lore_skill[a] # <<>>
       THEN /\ last' = Call("add_lore_skill", a, None, level, "KeyError")
            /\ UNCHANGED lore_skill
       ELSE /\ lore_skill' = [lore_skill EXCEPT ![a] = <<level>>]
            /\ last' = Call("add_lore_skill", a, None, level, "ok")
    /\ UNCHANGED <<combatVars, graphVars, statusVars, inv_location, combat_location, money_tokens, money,
                   doom_tokens, dispatchVars, callVars, dequeVars>>

\* Space.doom_tokens setter: a negative value is refused
DoomSetterRaises(value) == value < 0

\* Combat.__init__ assigns _investigator, _inventory, _location and the
\* engaged list; _inv_items is only annotated on the class
CombatHasInvItems == FALSE

\* min(num_successes, self._location.doom_tokens)
RemovedDooms(num_successes, dooms) == IF num_successes < dooms THEN num_successes ELSE dooms

\* Combat.ward_doom: reads self._inv_items first; with it, rolls one die per
\* lore level and takes min(successes, doom tokens) off self._location
WardDoom(a) ==
    /\ IF ~CombatHasInvItems
       THEN /\ last' = Call("ward_doom", a, None, 0, "AttributeError")
            /\ UNCHANGED doom_tokens
       ELSE IF lore_skill[a] = <<>>
       THEN /\ last' = Call("ward_doom", a, None, 0, "KeyError")
            /\ UNCHANGED doom_tokens
       ELSE \E num_successes \in 0..lore_skill[a][1] :
                LET dooms == doom_tokens[combat_location[a]]
                    value == dooms - RemovedDooms(num_successes, dooms)
                IN  IF DoomSetterRaises(value)
                    THEN /\ last' = Call("ward_doom", a, None, num_successes,
                                         "NegativeValueError")
                         /\ UNCHANGED doom_tokens
                    ELSE /\ doom_tokens' = [doom_tokens EXCEPT
                                              ![combat_location[a]] = value]
                         /\ last' = Call("ward_doom", a, None, num_successes, "ok")
    /\ UNCHANGED <<combatVars, graphVars, statusVars, inv_location, combat_location, money_tokens, money,
                   lore_skill, dispatchVars, callVars, dequeVars>>

\* the investigator that moves and wards; the other one stays as constructed
Movers == {"a1"}

\* one state of the monsters; the Combat of the mover was built from a parent
\* standing on any space, and the spaces were built with any doom tokens
InitMove ==
    /\ MonsterInit
    /\ health = [m \in Monsters |-> MaxHealth]
    /\ inv_location = [a \in Investigators |-> None]
    /\ combat_location \in {f \in [Investigators -> MapSpaces] :
                              \A a \in Investigators \ Movers : f[a] = "s1"}
    /\ money_tokens = [a \in Investigators |-> 0]
    /\ money = [a \in Investigators |-> 0]
    /\ lore_skill = [a \in Investigators |-> <<>>]
    /\ doom_tokens \in [MapSpaces -> 0..MaxDoom]
    /\ DispatchInit
    /\ CallInit
    /\ DequeInit
    /\ GraphInit
    /\ StatusInit

NextMove ==
    \/ \E a \in Movers, s \in MapSpaces : SetInvLocation(a, s)
    \/ \E a \in Movers, amount \in 1..MaxMoney : AddMoney(a, amount)
    \/ \E a \in Movers, s \in MapSpaces : Move(a, s)
    \/ \E a \in Movers, level \in 1..MaxSkill : AddLoreSkill(a, level)
    \/ \E a \in Movers : WardDoom(a)

SpecMove == InitMove /\ [][NextMove]_vars

\* C15: a move that returns has put the actor on the target space and has
\* charged no money token when the truncated distance is at most 2, and
\* exactly distance - 2 money tokens when it is 3 or 4.
C15_MoveCharges ==
    [][\A a \in Investigators :
          (last'.op = "move" /\ last'.a = a /\ last'.res = "ok") =>
              LET d == CalcDistance(inv_location[a], last'.s)
              IN  /\ d <= 4
                  /\ inv_location'[a] = last'.s
                  /\ d <= 2 => money_tokens'[a] = money_tokens[a]
                  /\ d \in {3, 4} => money_tokens'[a] = money_tokens[a] - (d - 2)]_vars

\* a move over distance 4 has just returned and two money tokens are gone
C15_Witness ==
    /\ last.op = "move" /\ last.res = "ok" /\ last.d = 4
    /\ \E a \in Investigators :
          /\ last.a = a
          /\ inv_location[a] = last.s
          /\ money[a] = 2 /\ money_tokens[a] = 0

\* C16: a move over a distance above 4, or over distance 3 or 4 by an actor
\* holding fewer than distance - 2 money tokens, raises and leaves the
\* actor's location and money tokens as they were.
C16_MoveRejected ==
    [][\A a \in Investigators :
          (last'.op = "move" /\ last'.a = a /\ inv_location[a] # None) =>
              LET d == CalcDistance(inv_location[a], last'.s)
              IN  (d > 4 \/ (d \in {3, 4} /\ money_tokens[a] < d - 2)) =>
                      /\ last'.res # "ok"
                      /\ inv_location'[a] = inv_location[a]
                      /\ money_tokens'[a] = money_tokens[a]]_vars

\* a move over distance 4 by an actor holding one money token was refused
C16_Witness ==
    /\ last.op = "move" /\ last.res = "ValueError" /\ last.d = 4
    /\ \E a \in Investigators :
          /\ last.a = a
          /\ money_tokens[a] = 1
          /\ inv_location[a] # None /\ inv_location[a] # last.s

\* C17: a ward_doom by an actor holding a lore skill returns and takes
\* exactly min(successes, doom tokens) doom tokens off one location (none
\* with zero successes), and no location ever has a negative count.
C17_WardRemovesMin ==
    /\ [](\A s \in MapSpaces : doom_tokens[s] >= 0)
    /\ [][\A a \in Investigators :
            (last'.op = "ward_doom" /\ last'.a = a /\ lore_skill[a] # <<>>) =>
                /\ last'.res = "ok"
                /\ \E s \in MapSpaces :
                      doom_tokens' = [doom_tokens EXCEPT
                                        ![s] = @ - RemovedDooms(last'.arg, @)]]_vars

\* C18: a ward_doom by an actor that stands on a space and holds a lore
\* skill returns, lowers the doom tokens of the space the actor stands on
\* by min(successes, doom tokens) and leaves every other space's as it was.
C18_WardActsOnCurrentLocation ==
    [][\A a \in Investigators :
          (/\ last'.op = "ward_doom" /\ last'.a = a
           /\ lore_skill[a] # <<>>
           /\ inv_location[a] # None) =>
              /\ last'.res = "ok"
              /\ doom_tokens'[inv_location[a]] =
                    doom_tokens[inv_location[a]]
                      - RemovedDooms(last'.arg, doom_tokens[inv_location[a]])
              /\ \A s \in MapSpaces \ {inv_location[a]} :
                    doom_tokens'[s] = doom_tokens[s]]_vars

(* -------------------------------- Deque ------------------------------- *)

\* largest number of QueueNode objects a run creates
MaxNodes == 3
\* the items handed to enqueue are 1..MaxItem
MaxItem == 2

Items == 1..MaxItem

\* a call on the deque: item is the argument of an enqueue or the value a
\* dequeue or peek returned (0 when there is none)
DequeCall(op, item, res) ==
    [op |-> op, a |-> None, m |-> None, item |-> item, arg |-> 0, res |-> res]

\* QueueNode.__new__(value): no neighbours
QueueNode(value) == [value |-> value, next |-> 0, prev |-> 0]

\* Deque.is_empty
IsEmpty == front_items = 0

\* Deque.__iter__: the number of values it yields from the node `current` on
RECURSIVE IterCount(_, _)
IterCount(current, fuel) ==
    IF current = 0 \/ fuel = 0 THEN 0
    ELSE 1 + IterCount(nodes[current].next, fuel - 1)

\* the deque object: its three fields and the nodes they lead to
ThisDeque ==
    [nodes |-> nodes, front_items |-> front_items, rear_items |-> rear_items,
     size |-> size]

\* Deque.__iter__: the values it yields from the node `current` on
RECURSIVE Iter(_, _, _)
Iter(d, current, fuel) ==
    IF current = 0 \/ fuel = 0 THEN <<>>
    ELSE <<d.nodes[current].value>> \o Iter(d, d.nodes[current].next, fuel - 1)

\* list(deque)
Contents(d) == Iter(d, d.front_items, Len(d.nodes))

\* Deque.enqueue_front, as a function of the deque it is called on
enqueue_front_unlinked(d, item) ==
    LET n == Len(d.nodes) + 1
    IN  IF d.front_items = 0
        THEN [nodes |-> Append(d.nodes, QueueNode(item)),
              front_items |-> n, rear_items |-> n, size |-> d.size + 1]
        ELSE [nodes |-> Append([d.nodes EXCEPT ![d.front_items].prev = n],
                               QueueNode(item)),
              front_items |-> n, rear_items |-> d.rear_items, size |-> d.size + 1]
enqueue_front(d, item) ==
    LET n == Len(d.nodes) + 1
    IN  IF d.front_items = 0
        THEN [nodes |-> Append(d.nodes, QueueNode(item)),
              front_items |-> n, rear_items |-> n, size |-> d.size + 1]
        ELSE [nodes |-> Append([d.nodes EXCEPT ![d.front_items].prev = n],
                               [QueueNode(item) EXCEPT !.next = d.front_items]),
              front_items |-> n, rear_items |-> d.rear_items, size |-> d.size + 1]

\* Deque.dequeue_front on a deque that is not empty: moves __front_items
\* on, and clears __rear_items with it
dequeue_front(d) ==
    LET nxt == d.nodes[d.front_items].next
    IN  IF nxt # 0
        THEN [nodes |-> [d.nodes EXCEPT ![nxt].prev = 0],
              front_items |-> nxt, rear_items |-> d.rear_items, size |-> d.size - 1]
        ELSE [nodes |-> d.nodes,
              front_items |-> 0, rear_items |-> 0, size |-> d.size - 1]

\* Deque.enqueue_front
EnqueueFront(item) ==
    /\ Len(nodes) < MaxNodes
    /\ LET d == enqueue_front(ThisDeque, item)
       IN  /\ nodes' = d.nodes
           /\ front_items' = d.front_items
           /\ rear_items' = d.rear_items
           /\ size' = d.size
    /\ unreturned' = unreturned \cup {Len(nodes) + 1}
    /\ reference' = <<item>> \o reference
    /\ last' = DequeCall("enqueue_front", item, "ok")
    /\ UNCHANGED <<combatVars, graphVars, statusVars, moveVars, dispatchVars, callVars, rear, front>>

\* Deque.enqueue_rear
EnqueueRear(item) ==
    /\ Len(nodes) < MaxNodes
    /\ LET n == Len(nodes) + 1
       IN  /\ IF IsEmpty
              THEN /\ nodes' = Append(nodes, QueueNode(item))
                   /\ front_items' = n
                   /\ rear_items' = n
              ELSE /\ nodes' = Append(IF rear_items # 0
                                      THEN [nodes EXCEPT ![rear_items].next = n]
                                      ELSE nodes,
                                      [QueueNode(item) EXCEPT !.prev = rear_items])
                   /\ rear_items' = n
                   /\ UNCHANGED front_items
           /\ unreturned' = unreturned \cup {n}
    /\ size' = size + 1
    /\ reference' = Append(reference, item)
    /\ last' = DequeCall("enqueue_rear", item, "ok")
    /\ UNCHANGED <<combatVars, graphVars, statusVars, moveVars, dispatchVars, callVars, rear, front>>

\* a list without its last element
Front(seq) == SubSeq(seq, 1, Len(seq) - 1)

\* Deque.dequeue_front
DequeueFront ==
    /\ size + MaxNodes > 0
    /\ IF IsEmpty
       THEN /\ last' = DequeCall("dequeue_front", 0, "IndexError")
            /\ UNCHANGED <<nodes, front_items, rear_items, size, unreturned, reference>>
       ELSE /\ LET d == dequeue_front(ThisDeque)
               IN  /\ nodes' = d.nodes
                   /\ front_items' = d.front_items
                   /\ rear_items' = d.rear_items
                   /\ size' = d.size
            /\ unreturned' = unreturned \ {front_items}
            /\ reference' = IF reference = <<>> THEN <<>> ELSE Tail(reference)
            /\ last' = DequeCall("dequeue_front", nodes[front_items].value, "ok")
    /\ UNCHANGED <<combatVars, graphVars, statusVars, moveVars, dispatchVars, callVars, rear, front>>

\* Deque.dequeue_rear: assigns the attributes `rear` and `front`, not
\* __rear_items and __front_items, which stay on the node just returned
DequeueRear ==
    /\ size + MaxNodes > 0
    /\ IF IsEmpty
       THEN /\ last' = DequeCall("dequeue_rear", 0, "IndexError")
            /\ UNCHANGED <<nodes, size, rear, front, unreturned, reference>>
       ELSE IF rear_items = 0
       THEN /\ last' = DequeCall("dequeue_rear", 0, "RuntimeError")
            /\ UNCHANGED <<nodes, size, rear, front, unreturned, reference>>
       ELSE LET prv == nodes[rear_items].prev
            IN  /\ rear' = prv
                /\ IF prv # 0
                   THEN /\ nodes' = [nodes EXCEPT ![prv].next = 0]
                        /\ UNCHANGED front
                   ELSE /\ front' = 0
                        /\ UNCHANGED nodes
                /\ size' = size - 1
                /\ unreturned' = unreturned \ {rear_items}
                /\ reference' = IF reference = <<>> THEN <<>> ELSE Front(reference)
                /\ last' = DequeCall("dequeue_rear", nodes[rear_items].value, "ok")
    /\ UNCHANGED <<combatVars, graphVars, statusVars, moveVars, dispatchVars, callVars, front_items, rear_items>>

\* Deque.peek_front
PeekFront ==
    /\ last' = IF IsEmpty THEN DequeCall("peek_front", 0, "IndexError")
               ELSE DequeCall("peek_front", nodes[front_items].value, "ok")
    /\ UNCHANGED <<combatVars, graphVars, statusVars, moveVars, dispatchVars, callVars, dequeVars>>

\* Deque.peek_rear
PeekRear ==
    /\ last' = IF IsEmpty THEN DequeCall("peek_rear", 0, "IndexError")
               ELSE IF rear_items = 0 THEN DequeCall("peek_rear", 0, "ValueError")
               ELSE DequeCall("peek_rear", nodes[rear_items].value, "ok")
    /\ UNCHANGED <<combatVars, graphVars, statusVars, moveVars, dispatchVars, callVars, dequeVars>>

\* one state of everything else; the deque starts empty
InitDeque ==
    /\ MonsterInit
    /\ health = [m \in Monsters |-> MaxHealth]
    /\ MoveInit
    /\ DispatchInit
    /\ CallInit
    /\ DequeInit
    /\ GraphInit
    /\ StatusInit

NextDeque ==
    \/ \E item \in Items : EnqueueFront(item)
    \/ \E item \in Items : EnqueueRear(item)
    \/ DequeueFront
    \/ DequeueRear
    \/ PeekFront
    \/ PeekRear

SpecDeque == InitDeque /\ [][NextDeque]_vars

\* C19: len() equals the number of enqueued items not yet returned by a
\* dequeue, equals the number of nodes reachable from the front pointer, and
\* is never negative.
C19_LenCountsItems ==
    /\ size = Cardinality(unreturned)
    /\ size = IterCount(front_items, Len(nodes))
    /\ size >= 0

\* C20: dequeue_front, dequeue_rear, peek_front and peek_rear on a deque
\* that holds no item (none enqueued, or every enqueued item already
\* returned) raise IndexError and leave the deque as it was.
C20_EmptyRaises ==
    [][(/\ unreturned = {}
        /\ last'.op \in {"dequeue_front", "dequeue_rear", "peek_front", "peek_rear"}) =>
            /\ last'.res = "IndexError"
            /\ UNCHANGED <<nodes, front_items, rear_items, size>>]_vars

(* ------------------- action dispatch and round driver ----------------- *)

\* the characters of the names that occur below
Spelling(name) ==
    CASE name = "_action" ->
           <<"_", "a", "c", "t", "i", "o", "n">>
      [] name = "__module__" ->
           <<"_", "_", "m", "o", "d", "u", "l", "e", "_", "_">>
      [] name = "__qualname__" ->
           <<"_", "_", "q", "u", "a", "l", "n", "a", "m", "e", "_", "_">>
      [] name = "__doc__" ->
           <<"_", "_", "d", "o", "c", "_", "_">>
      [] name = "__annotations__" ->
           <<"_", "_", "a", "n", "n", "o", "t", "a", "t", "i", "o", "n", "s", "_", "_">>
      [] name = "__new__" ->
           <<"_", "_", "n", "e", "w", "_", "_">>
      [] name = "get_action_map" ->
           <<"g", "e", "t", "_", "a", "c", "t", "i", "o", "n", "_", "m", "a", "p">>
      [] name = "perform_investigator_action" ->
           <<"p", "e", "r", "f", "o", "r", "m", "_", "i", "n", "v", "e", "s", "t", "i", "g", "a", "t", "o", "r", "_", "a", "c", "t", "i", "o", "n">>
      [] name = "_move_investigator" ->
           <<"_", "m", "o", "v", "e", "_", "i", "n", "v", "e", "s", "t", "i", "g", "a", "t", "o", "r">>
      [] name = "_attack_monster" ->
           <<"_", "a", "t", "t", "a", "c", "k", "_", "m", "o", "n", "s", "t", "e", "r">>
      [] name = "_evade_monster" ->
           <<"_", "e", "v", "a", "d", "e", "_", "m", "o", "n", "s", "t", "e", "r">>
      [] name = "_ward_doom" ->
           <<"_", "w", "a", "r", "d", "_", "d", "o", "o", "m">>
      [] name = "resolve_encounter" ->
           <<"r", "e", "s", "o", "l", "v", "e", "_", "e", "n", "c", "o", "u", "n", "t", "e", "r">>
      [] name = "move_investigator" ->
           <<"m", "o", "v", "e", "_", "i", "n", "v", "e", "s", "t", "i", "g", "a", "t", "o", "r">>
      [] name = "attack_monster" ->
           <<"a", "t", "t", "a", "c", "k", "_", "m", "o", "n", "s", "t", "e", "r">>
      [] name = "evade_monster" ->
           <<"e", "v", "a", "d", "e", "_", "m", "o", "n", "s", "t", "e", "r">>
      [] name = "ward_doom" ->
           <<"w", "a", "r", "d", "_", "d", "o", "o", "m">>
      [] name = "draw_token" ->
           <<"d", "r", "a", "w", "_", "t", "o", "k", "e", "n">>
      [] name = "fly" ->
           <<"f", "l", "y">>

\* str.startswith
StartsWith(str, prefix) ==
    /\ Len(str) >= Len(prefix)
    /\ SubSeq(str, 1, Len(prefix)) = prefix

\* str.replace(old, new) for a non-empty old: every occurrence, left to right
RECURSIVE Replace(_, _, _)
Replace(str, old, new) ==
    IF Len(str) < Len(old) THEN str
    ELSE IF SubSeq(str, 1, Len(old)) = old
         THEN new \o Replace(SubSeq(str, Len(old) + 1, Len(str)), old, new)
         ELSE <<Head(str)>> \o Replace(Tail(str), old, new)

\* the class body of ActionManager as the metaclass receives it (dic_vals)
ClassDictKeys ==
    {"__module__", "__qualname__", "__doc__", "__annotations__",
     "__new__", "get_action_map", "perform_investigator_action",
     "_move_investigator", "_attack_monster", "_evade_monster", "_ward_doom",
     "resolve_encounter"}

\* callable(value): the functions of the class body
Callable(key) == key \notin {"__module__", "__qualname__", "__doc__", "__annotations__"}

\* Action.__new__: _registered_actions holds the callables whose name
\* starts with "_action"
RegisteredActions ==
    {key \in ClassDictKeys : Callable(key) /\ StartsWith(Spelling(key), Spelling("_action"))}

\* ActionManager.get_action_map: the keys, with "_action" taken out
GetActionMap == {Replace(Spelling(key), Spelling("_action"), <<>>) : key \in RegisteredActions}

\* the names a caller hands to the dispatcher: the five handlers by their
\* documented name and by their method name, a niladic action and a name
\* that no handler has
InScopeActions ==
    {"move_investigator", "attack_monster", "evade_monster", "ward_doom",
     "resolve_encounter", "_move_investigator", "_attack_monster",
     "_evade_monster", "_ward_doom"}
ActionNames == InScopeActions \cup {"draw_token", "fly"}

\* the actor names a caller hands to the dispatcher
ActorNames == Investigators \cup {"nobody"}

\* largest number of extra arguments handed to the dispatcher
MaxArgs == 1

\* a dispatcher call: the actor name, the action name and the number of
\* extra arguments
DispatchCall(op, a, action, nargs, res) ==
    [op |-> op, a |-> a, m |-> None, action |-> action, arg |-> nargs, res |-> res]

\* the keys of the registry
Registered == {investigators[i] : i \in DOMAIN investigators}

\* Investigator.__new__ never assigns _game_data, which the name property reads
HasGameData == FALSE

\* InvestigatorManager.add_investigator: the key is investigator.name
AddInvestigator(a) ==
    /\ round_pc # "running"
    /\ IF ~HasGameData
       THEN /\ last' = Call("add_investigator", a, None, 0, "AttributeError")
            /\ UNCHANGED investigators
       ELSE /\ investigators' = IF a \in Registered THEN investigators
                                ELSE Append(investigators, a)
            /\ last' = Call("add_investigator", a, None, 0, "ok")
    /\ UNCHANGED <<combatVars, graphVars, statusVars, moveVars, round_pc, round_idx, actions_deck, visited,
                   dispatched, callVars, dequeVars>>

\* InvestigatorManager.investigators hands out the dictionary itself; a
\* caller enters an investigator under a name of its choice
RegisterInvestigator(a) ==
    /\ round_pc # "running"
    /\ a \notin Registered
    /\ investigators' = Append(investigators, a)
    /\ last' = Call("investigators", a, None, 0, "ok")
    /\ UNCHANGED <<combatVars, graphVars, statusVars, moveVars, round_pc, round_idx, actions_deck, visited,
                   dispatched, callVars, dequeVars>>

\* InvestigatorManager.get_investigator: KeyError for a name that is not a key
GetInvestigatorNeverRaises(name) == FALSE
GetInvestigatorRaises(name) == name \notin Registered

\* ActionManager.perform_investigator_action: the actor is looked up first,
\* then the action; a handler that is found is called as a plain function,
\* so the investigator lands in its `self` and one argument is missing or,
\* with an extra argument, the investigator is asked for a manager
PerformInvestigatorAction(name, action, nargs) ==
    /\ round_pc # "running"
    /\ last' = DispatchCall("perform_investigator_action", name, action, nargs,
                  IF GetInvestigatorRaises(name) THEN "KeyError"
                  ELSE IF Spelling(action) \notin GetActionMap THEN "NotFoundError"
                  ELSE IF nargs = 0 THEN "TypeError"
                  ELSE "AttributeError")
    /\ UNCHANGED <<combatVars, graphVars, statusVars, moveVars, dispatchVars, callVars, dequeVars>>

\* the orders random.shuffle can leave a list of the elements of S in
Shuffles(S) ==
    {f \in [1..Cardinality(S) -> S] : \A i, j \in DOMAIN f : f[i] = f[j] => i = j}

\* GameFlowManager.play_round is entered: the iteration over the registry's
\* values begins
PlayRound ==
    /\ round_pc # "running"
    /\ round_pc' = "running"
    /\ round_idx' = 0
    /\ actions_deck' = <<>>
    /\ visited' = <<>>
    /\ dispatched' = <<>>
    /\ last' = Call("play_round", None, None, 0, "running")
    /\ UNCHANGED <<combatVars, graphVars, statusVars, moveVars, investigators, callVars, dequeVars>>

\* the for loop's step to the next value of the registry
NextIndexSkipping(idx) == idx + 2
NextIndex(idx) == idx + 1

\* one step of the running play_round: draw and dispatch the front action
\* of the deck (investigator.name is read for the call, and the handler is
\* called without extra arguments, which raises TypeError), else take the
\* next investigator and shuffle a fresh deck of the action map's keys,
\* else return
PlayRoundStep ==
    /\ round_pc = "running"
    /\ IF actions_deck # <<>>
       THEN IF ~HasGameData
            THEN /\ round_pc' = "raised"
                 /\ actions_deck' = Tail(actions_deck)
                 /\ last' = Call("play_round", None, None, 0, "AttributeError")
                 /\ UNCHANGED <<round_idx, visited, dispatched>>
            ELSE /\ actions_deck' = Tail(actions_deck)
                 /\ dispatched' = Append(dispatched,
                                         <<investigators[round_idx], Head(actions_deck)>>)
                 /\ round_pc' = "raised"
                 /\ last' = Call("play_round", None, None, 0, "TypeError")
                 /\ UNCHANGED <<round_idx, visited>>
       ELSE IF NextIndex(round_idx) <= Len(investigators)
       THEN /\ round_idx' = NextIndex(round_idx)
            /\ visited' = Append(visited, investigators[NextIndex(round_idx)])
            /\ actions_deck' \in Shuffles(GetActionMap)
            /\ last' = Call("play_round", investigators[NextIndex(round_idx)], None, 0,
                            "running")
            /\ UNCHANGED <<round_pc, dispatched>>
       ELSE /\ round_pc' = "done"
            /\ last' = Call("play_round", None, None, 0, "ok")
            /\ UNCHANGED <<round_idx, actions_deck, visited, dispatched>>
    /\ UNCHANGED <<combatVars, graphVars, statusVars, moveVars, investigators, callVars, dequeVars>>

\* one state of everything else; the registry starts empty
InitDispatch ==
    /\ MonsterInit
    /\ health = [m \in Monsters |-> MaxHealth]
    /\ MoveInit
    /\ DispatchInit
    /\ CallInit
    /\ DequeInit
    /\ GraphInit
    /\ StatusInit

NextDispatch ==
    \/ \E a \in Investigators : AddInvestigator(a)
    \/ \E a \in Investigators : RegisterInvestigator(a)
    \/ \E name \in ActorNames, action \in ActionNames, nargs \in 0..MaxArgs :
          PerformInvestigatorAction(name, action, nargs)
    \/ PlayRound
    \/ PlayRoundStep

SpecDispatch == InitDispatch /\ [][NextDispatch]_vars

\* a play_round that has been entered keeps running: nothing else runs
\* between its steps
SpecRound == InitDispatch /\ [][NextDispatch]_vars /\ WF_vars(PlayRoundStep)

\* C11: the dispatcher, called with a registered actor and the name of one
\* of the five handlers, finds the handler in the action map.
C11_HandlersInActionMap ==
    [][(/\ last'.op = "perform_investigator_action"
        /\ last'.a \in Registered
        /\ last'.action \in InScopeActions) =>
            last'.res # "NotFoundError"]_vars

\* C12: the dispatcher raises KeyError for an actor name that is not in the
\* registry, whatever the action name, and NotFoundError for a registered
\* actor with an action name that is not in the action map; in both cases
\* the actors, monsters, locations and decks stay as they were.
C12_UnknownRejected ==
    [][last'.op = "perform_investigator_action" =>
          /\ last'.a \notin Registered => last'.res = "KeyError"
          /\ (last'.a \in Registered /\ Spelling(last'.action) \notin GetActionMap) =>
                last'.res = "NotFoundError"
          /\ (last'.a \notin Registered \/ Spelling(last'.action) \notin GetActionMap) =>
                UNCHANGED <<combatVars, graphVars, statusVars, moveVars, dispatchVars, callVars, dequeVars>>]_vars

\* an unknown actor asked for an unknown action while another actor is
\* registered: the actor's error came first
C12_Witness ==
    /\ last.op = "perform_investigator_action"
    /\ last.res = "KeyError"
    /\ last.action = "fly"
    /\ last.a \notin Registered
    /\ investigators # <<>>

\* the pairs a complete round hands to the dispatcher: for each actor of
\* the registry, in order, each key of the action map once
RECURSIVE Occurrences(_, _)
Occurrences(seq, x) ==
    IF seq = <<>> THEN 0
    ELSE (IF Head(seq) = x THEN 1 ELSE 0) + Occurrences(Tail(seq), x)

MaxDepth == 6

\* one activation: the function, the investigator it runs for and the
\* monster or space it was handed (None where it takes none)
Frame(fn, a, m, s) == [fn |-> fn, a |-> a, m |-> m, s |-> s]

\* the five actions of the Investigator
InvestigatorActions ==
    {"move", "attack_monster", "cast_spell", "ward_doom", "evade_monster"}

\* the function an Investigator action enters first
Entry(op) ==
    CASE op = "move"           -> "Investigator.move"
      [] op = "attack_monster" -> "Investigator.attack_monster"
      [] op = "cast_spell"     -> "Investigator.cast_spell"
      [] op = "ward_doom"      -> "Investigator.ward_doom"
      [] OTHER                 -> "Investigator.evade_monster"

\* the call each function makes, with the arguments it was given itself;
\* "raise" for the functions that call nothing further here
Callee(fn) ==
    CASE fn = "Investigator.move"                  -> "MoveCommand.execute_action"
      [] fn = "MoveCommand.execute_action"         -> "Investigator.move"
      [] fn = "Investigator.cast_spell"            -> "CastSpellCommand.execute_action"
      [] fn = "CastSpellCommand.execute_action"    -> "Investigator.cast_spell"
      [] fn = "Investigator.ward_doom"             -> "WardDoomCommand.execute_action"
      [] fn = "WardDoomCommand.execute_action"     -> "Investigator.ward_doom"
      [] fn = "Investigator.attack_monster"        -> "AttackMonsterCommand.execute_action"
      [] fn = "Investigator.evade_monster"         -> "Combat.evade_monster"
      [] OTHER                                     -> "raise"

\* how the functions that call nothing further end:
\* AttackMonsterCommand.execute_action reads self._combat, which no
\* constructor assigns; Combat.evade_monster refuses a monster that is not
\* in the engaged list, needs the observation skill and then compares the
\* bound method obs_s.level with an int
LeafResult(fr) ==
    IF fr.fn = "AttackMonsterCommand.execute_action"
    THEN IF ~CommandHasCombat THEN "AttributeError"
         ELSE IF ~InEngaged(fr.a, fr.m) THEN "ValueError" ELSE "ok"
    ELSE IF ~InEngaged(fr.a, fr.m) THEN "ValueError"
         ELSE IF skills[fr.a] = <<>> THEN "KeyError"
         ELSE "AttributeError"

\* a caller invokes an action of the Investigator
InvokeAction(op, a, m, s) ==
    /\ stack = <<>>
    /\ stack' = <<Frame(Entry(op), a, m, s)>>
    /\ last' = [op |-> op, a |-> a, m |-> m, s |-> s, arg |-> 0, res |-> "running"]
    /\ UNCHANGED <<combatVars, graphVars, statusVars, moveVars, dispatchVars, dequeVars>>

\* the running call goes on: the innermost function makes its call, or ends
\* the whole chain with its exception; at MaxDepth the interpreter raises
\* RecursionError instead of entering the callee
RunStep ==
    /\ stack # <<>>
    /\ LET top == stack[Len(stack)]
       IN  IF Callee(top.fn) = "raise"
           THEN /\ stack' = <<>>
                /\ last' = [last EXCEPT !.res = LeafResult(top)]
           ELSE IF Len(stack) >= MaxDepth
           THEN /\ stack' = <<>>
                /\ last' = [last EXCEPT !.res = "RecursionError"]
           ELSE /\ stack' = Append(stack, Frame(Callee(top.fn), top.a, top.m, top.s))
                /\ UNCHANGED last
    /\ UNCHANGED <<combatVars, graphVars, statusVars, moveVars, dispatchVars, dequeVars>>

\* one state of everything else; no call is running
InitCall ==
    /\ MonsterInit
    /\ health = [m \in Monsters |-> MaxHealth]
    /\ MoveInit
    /\ DispatchInit
    /\ CallInit
    /\ DequeInit
    /\ GraphInit
    /\ StatusInit

NextCall ==
    \/ \E a \in Investigators, s \in MapSpaces : InvokeAction("move", a, None, s)
    \/ \E a \in Investigators, m \in Monsters,
          op \in {"attack_monster", "cast_spell", "evade_monster"} :
          InvokeAction(op, a, m, None)
    \/ \E a \in Investigators : InvokeAction("ward_doom", a, None, None)
    \/ RunStep

SpecCall == InitCall /\ [][NextCall]_vars

\* C14: no action of the Investigator re-enters itself: a function is never
\* entered again, with the arguments and the state it was entered with
\* before, while that activation is still running (a chain that does so
\* never ends by itself).
C14_NoReentry ==
    \A i, j \in DOMAIN stack : stack[i] = stack[j] => i = j

(* ----------------------- Deque against a list ------------------------- *)

\* C21: the deque behaves as the reference list: iteration from the front
\* yields the reference list, dequeue_front and peek_front return its first
\* element and dequeue_rear and peek_rear its last.
C21_RefinesList ==
    /\ [](Contents(ThisDeque) = reference)
    /\ [][(last'.op \in {"dequeue_front", "peek_front"} /\ reference # <<>>) =>
             (last'.res = "ok" /\ last'.item = Head(reference))]_vars
    /\ [][(last'.op \in {"dequeue_rear", "peek_rear"} /\ reference # <<>>) =>
             (last'.res = "ok" /\ last'.item = reference[Len(reference)])]_vars

\* the deque after dequeue_front and enqueue_front of the item it returned
FrontRoundTrip(d) == enqueue_front(dequeue_front(d), d.nodes[d.front_items].value)

\* C22: on a deque that is not empty, dequeue_front followed by
\* enqueue_front of the returned item leaves the contents, their order and
\* len() as they were.
C22_FrontRoundTripIsNoOp ==
    ~IsEmpty =>
        /\ Contents(FrontRoundTrip(ThisDeque)) = Contents(ThisDeque)
        /\ FrontRoundTrip(ThisDeque).size = size

\* an item was put back at the front of a deque that holds another one
C22_Witness ==
    /\ last.op = "enqueue_front"
    /\ ~IsEmpty
    /\ Len(Contents(ThisDeque)) >= 2
    /\ size = Len(Contents(ThisDeque))
    /\ Contents(FrontRoundTrip(ThisDeque)) = Contents(ThisDeque)

(* ---------------------------- PartialOrder ---------------------------- *)

\* the nodes handed to the PartialOrder
GraphNodes == {"a", "b", "c", "d"}

GraphCall(op, tail, head, res) == [op |-> op, tail |-> tail, head |-> head, res |-> res]

\* the orders in which iterating over a set can yield its elements
IterationOrders(S) ==
    {f \in [1..Cardinality(S) -> S] : \A i, j \in DOMAIN f : f[i] = f[j] => i = j}

\* the loop of PartialOrder._creates_cycle on a stack and a visited set: the
\* outcomes it can end with. The neighbours are pushed in the iteration
\* order of the edge set, which is any order.
RECURSIVE Dfs(_, _, _)
Dfs(tail, stk, seen) ==
    IF stk = <<>> THEN {"False"}
    ELSE LET node == stk[Len(stk)]
             rest == SubSeq(stk, 1, Len(stk) - 1)
             neighbors == {e[2] : e \in {x \in po_edges : x[1] = node}}
         IN  IF node = tail THEN {"True"}
             ELSE IF node \in seen THEN {"AttributeError"}
             ELSE UNION {Dfs(tail, rest \o order, seen \cup {node}) :
                            order \in IterationOrders(neighbors)}

\* PartialOrder._creates_cycle(tail, head): the search starts at head
CreatesCycleDirect(tail, head) == IF head = tail THEN {"True"} ELSE {"False"}
CreatesCycle(tail, head) == Dfs(tail, <<head>>, {})

\* PartialOrder.add_node -> DiGraph.add_node
PartialOrderAddNode(n) ==
    /\ po_nodes' = po_nodes \cup {n}
    /\ last' = GraphCall("po_add_node", n, n, "ok")
    /\ UNCHANGED <<combatVars, moveVars, dispatchVars, callVars, dequeVars, statusVars,
                   po_edges, graph_nodes, graph_edges, spaces_dict>>

\* PartialOrder.add_edge: ValueError when _creates_cycle returns True, the
\* AttributeError of _creates_cycle passes through, otherwise DiGraph.add_edge
PartialOrderAddEdgeNodesFirst(tail, head) ==
    /\ po_nodes' = po_nodes \cup {tail, head}
    /\ \E outcome \in CreatesCycle(tail, head) :
          IF outcome = "True"
          THEN /\ last' = GraphCall("po_add_edge", tail, head, "ValueError")
               /\ UNCHANGED po_edges
          ELSE IF outcome = "AttributeError"
          THEN /\ last' = GraphCall("po_add_edge", tail, head, "AttributeError")
               /\ UNCHANGED po_edges
          ELSE /\ po_edges' = po_edges \cup {<<tail, head>>}
               /\ last' = GraphCall("po_add_edge", tail, head, "ok")
    /\ UNCHANGED <<combatVars, moveVars, dispatchVars, callVars, dequeVars, statusVars,
                   graph_nodes, graph_edges, spaces_dict>>
PartialOrderAddEdge(tail, head) ==
    /\ \E outcome \in CreatesCycle(tail, head) :
          IF outcome = "True"
          THEN /\ last' = GraphCall("po_add_edge", tail, head, "ValueError")
               /\ UNCHANGED <<po_nodes, po_edges>>
          ELSE IF outcome = "AttributeError"
          THEN /\ last' = GraphCall("po_add_edge", tail, head, "AttributeError")
               /\ UNCHANGED <<po_nodes, po_edges>>
          ELSE /\ po_edges' = po_edges \cup {<<tail, head>>}
               /\ po_nodes' = po_nodes \cup {tail, head}
               /\ last' = GraphCall("po_add_edge", tail, head, "ok")
    /\ UNCHANGED <<combatVars, moveVars, dispatchVars, callVars, dequeVars, statusVars,
                   graph_nodes, graph_edges, spaces_dict>>

InitGraph ==
    /\ MonsterInit
    /\ health = [m \in Monsters |-> MaxHealth]
    /\ MoveInit
    /\ DispatchInit
    /\ CallInit
    /\ DequeInit
    /\ GraphInit
    /\ StatusInit

NextGraph ==
    \/ \E n \in GraphNodes : PartialOrderAddNode(n)
    \/ \E tail, head \in GraphNodes : PartialOrderAddEdge(tail, head)

SpecGraph == InitGraph /\ [][NextGraph]_vars

\* the nodes that a path of edges of E leads to from a node of S (S included)
RECURSIVE ReachFrom(_, _)
ReachFrom(E, S) ==
    LET N == S \cup {e[2] : e \in {x \in E : x[1] \in S}}
    IN  IF N = S THEN S ELSE ReachFrom(E, N)

\* there is a directed path (possibly empty) from x to y
HasPath(E, x, y) == y \in ReachFrom(E, {x})

\* no edge lies on a directed cycle; a self-loop is a cycle
Acyclic(E) == \A e \in E : ~HasPath(E, e[2], e[1])

\* C23: whatever add_node and add_edge calls were made on an empty
\* PartialOrder, accepted or rejected, its edge set has no directed cycle
\* and no self-loop.
C23_PartialOrderAcyclic == Acyclic(po_edges)

\* an add_edge that would have closed a cycle of two or more edges was refused
C23_Witness ==
    /\ last.op = "po_add_edge"
    /\ last.res = "ValueError"
    /\ last.tail # last.head
    /\ HasPath(po_edges, last.head, last.tail)
    /\ Acyclic(po_edges)

\* C24: add_edge(tail, head) returns and inserts the edge and both endpoints
\* whenever head differs from tail and no path leads from head to tail; it
\* is rejected only when the edge would close a cycle.
C24_LegalEdgeAccepted ==
    [][last'.op = "po_add_edge" =>
          IF HasPath(po_edges, last'.head, last'.tail)
          THEN last'.res # "ok"
          ELSE /\ last'.res = "ok"
               /\ po_edges' = po_edges \cup {<<last'.tail, last'.head>>}
               /\ po_nodes' = po_nodes \cup {last'.tail, last'.head}]_vars

\* C25: a rejected add_edge leaves the node set and the edge set exactly as
\* they were; neither endpoint is added.
C25_RejectedEdgeChangesNothing ==
    [][(last'.op = "po_add_edge" /\ last'.res # "ok") =>
          (po_nodes' = po_nodes /\ po_edges' = po_edges)]_vars

\* a self-loop on a node the graph does not hold was refused, and the node
\* is still not in the graph
C25_Witness ==
    /\ last.op = "po_add_edge"
    /\ last.res = "ValueError"
    /\ last.tail = last.head
    /\ last.tail \notin po_nodes
    /\ po_edges # {}

(* ---------------------------- SpaceManager ---------------------------- *)

\* the names of the Space objects handed to the SpaceManager, one per name
ManagedSpaces == {"s1", "s2", "s3"}

\* SpaceManager.add_space: DiGraph.add_node and the entry under the name
AddSpace(s) ==
    /\ graph_nodes' = graph_nodes \cup {s}
    /\ spaces_dict' = spaces_dict \cup {s}
    /\ last' = GraphCall("add_space", s, s, "ok")
    /\ UNCHANGED <<combatVars, moveVars, dispatchVars, callVars, dequeVars, statusVars,
                   po_nodes, po_edges, graph_edges>>

\* SpaceManager.connect_spaces: both names are looked up (KeyError for a
\* name never added), then DiGraph.add_edge, which tests nothing
ConnectSpaces(n1, n2) ==
    /\ IF n1 \notin spaces_dict \/ n2 \notin spaces_dict
       THEN /\ last' = GraphCall("connect_spaces", n1, n2, "KeyError")
            /\ UNCHANGED <<graph_nodes, graph_edges>>
       ELSE /\ graph_edges' = graph_edges \cup {<<n1, n2>>}
            /\ graph_nodes' = graph_nodes \cup {n1, n2}
            /\ last' = GraphCall("connect_spaces", n1, n2, "ok")
    /\ UNCHANGED <<combatVars, moveVars, dispatchVars, callVars, dequeVars, statusVars,
                   po_nodes, po_edges, spaces_dict>>

NextMap ==
    \/ \E s \in ManagedSpaces : AddSpace(s)
    \/ \E n1, n2 \in ManagedSpaces : ConnectSpaces(n1, n2)

SpecMap == InitGraph /\ [][NextMap]_vars

\* C26: the map graph of the SpaceManager has no directed cycle after any
\* add_space and connect_spaces calls: a connect_spaces that would close a
\* cycle is rejected and leaves the map as it was.
C26_MapAcyclic ==
    /\ [](Acyclic(graph_edges))
    /\ [][(last'.op = "connect_spaces"
             /\ HasPath(graph_edges, last'.head, last'.tail)) =>
             (last'.res # "ok" /\ UNCHANGED <<graph_nodes, graph_edges, spaces_dict>>)]_vars

(* ------------------------- InvestigatorStatus ------------------------- *)

\* InvestigatorStatus._validate_args returns when neither value is negative
\* and raises NegativeValueError otherwise
ValidateArgs(h, s) == h >= 0 /\ s >= 0

\* the frame of a call on the InvestigatorStatus alone
StatusFrame ==
    UNCHANGED <<combatVars, moveVars, dispatchVars, callVars, dequeVars, graphVars,
                is_defeated, focus_tokens>>

\* InvestigatorStatus.take_damage
InvTakeDamage(a, amount) ==
    /\ IF ~ValidateArgs(inv_health[a], inv_sanity[a]) \/ amount < 0
       THEN /\ last' = Call("inv_take_damage", a, None, amount, "NegativeValueError")
            /\ UNCHANGED inv_health
       ELSE /\ inv_health' = [inv_health EXCEPT ![a] = @ - amount]
            /\ last' = Call("inv_take_damage", a, None, amount, "ok")
    /\ UNCHANGED inv_sanity
    /\ StatusFrame

\* InvestigatorStatus.lose_sanity
LoseSanity(a, amount) ==
    /\ IF ~ValidateArgs(inv_health[a], inv_sanity[a]) \/ amount < 0
       THEN /\ last' = Call("lose_sanity", a, None, amount, "NegativeValueError")
            /\ UNCHANGED inv_sanity
       ELSE /\ inv_sanity' = [inv_sanity EXCEPT ![a] = @ - amount]
            /\ last' = Call("lose_sanity", a, None, amount, "ok")
    /\ UNCHANGED inv_health
    /\ StatusFrame

\* InvestigatorStatus.heal
Heal(a, amount) ==
    /\ inv_health[a] + amount <= MaxVitals
    /\ IF ~ValidateArgs(inv_health[a], inv_sanity[a]) \/ amount < 0
       THEN /\ last' = Call("heal", a, None, amount, "NegativeValueError")
            /\ UNCHANGED inv_health
       ELSE /\ inv_health' = [inv_health EXCEPT ![a] = @ + amount]
            /\ last' = Call("heal", a, None, amount, "ok")
    /\ UNCHANGED inv_sanity
    /\ StatusFrame

\* InvestigatorStatus.restore_sanity
RestoreSanity(a, amount) ==
    /\ inv_sanity[a] + amount <= MaxVitals
    /\ IF ~ValidateArgs(inv_health[a], inv_sanity[a]) \/ amount < 0
       THEN /\ last' = Call("restore_sanity", a, None, amount, "NegativeValueError")
            /\ UNCHANGED inv_sanity
       ELSE /\ inv_sanity' = [inv_sanity EXCEPT ![a] = @ + amount]
            /\ last' = Call("restore_sanity", a, None, amount, "ok")
    /\ UNCHANGED inv_health
    /\ StatusFrame

\* InvestigatorStatus.check_defeat: a query, it assigns nothing
CheckDefeat(a) == inv_sanity[a] = 0 \/ inv_health[a] = 0

\* InvestigatorSpells.cast_spell(spell, monster) with spell.horror = horror:
\* the is_defeated test, then Combat.attack_monster, then lose_sanity; an
\* exception of either call ends the method where it was raised
CastSpell(a, m, horror) ==
    /\ IF is_defeated[a]
       THEN /\ last' = Call("cast_spell", a, m, horror, "AttributeError")
            /\ UNCHANGED <<health, inv_sanity>>
       ELSE IF ~InEngaged(a, m)
       THEN /\ last' = Call("cast_spell", a, m, horror, "ValueError")
            /\ UNCHANGED <<health, inv_sanity>>
       ELSE IF ~ValidateHealth(health[m] - 1)
       THEN /\ last' = Call("cast_spell", a, m, horror, "NegativeValueError")
            /\ UNCHANGED <<health, inv_sanity>>
       ELSE /\ health' = [health EXCEPT ![m] = health[m] - 1]
            /\ IF ~ValidateArgs(inv_health[a], inv_sanity[a]) \/ horror < 0
               THEN /\ last' = Call("cast_spell", a, m, horror, "NegativeValueError")
                    /\ UNCHANGED inv_sanity
               ELSE /\ inv_sanity' = [inv_sanity EXCEPT ![a] = @ - horror]
                    /\ last' = Call("cast_spell", a, m, horror, "ok")
    /\ UNCHANGED <<stage, engagement_stage, prey, location, engaged_monsters, skills,
                   moveVars, dispatchVars, callVars, dequeVars, graphVars,
                   inv_health, is_defeated, focus_tokens>>

\* the investigators whose status is exercised
StatusInvestigators == {"a1"}

\* InvestigatorStatus.__new__(health, sanity, is_defeated) for an investigator
\* created alive; is_defeated is whatever the caller passes
InitStatus ==
    /\ MonsterInit
    /\ health = [m \in Monsters |-> MaxHealth]
    /\ MoveInit
    /\ DispatchInit
    /\ CallInit
    /\ DequeInit
    /\ GraphInit
    /\ inv_health \in {f \in [Investigators -> 1..MaxVitals] :
                         \A a \in Investigators \ StatusInvestigators : f[a] = MaxVitals}
    /\ inv_sanity \in {f \in [Investigators -> 1..MaxVitals] :
                         \A a \in Investigators \ StatusInvestigators : f[a] = MaxVitals}
    /\ is_defeated \in {f \in [Investigators -> BOOLEAN] :
                         \A a \in Investigators \ StatusInvestigators : f[a] = FALSE}
    /\ focus_tokens = [a \in Investigators |-> [t \in TokenTypes \ {"money_tokens"} |-> 0]]

NextStatus ==
    \/ \E a \in StatusInvestigators, amount \in -1..MaxAmount : InvTakeDamage(a, amount)
    \/ \E a \in StatusInvestigators, amount \in -1..MaxAmount : LoseSanity(a, amount)
    \/ \E a \in StatusInvestigators, amount \in -1..MaxAmount : Heal(a, amount)
    \/ \E a \in StatusInvestigators, amount \in -1..MaxAmount : RestoreSanity(a, amount)
    \/ \E a \in StatusInvestigators, m \in CombatMonsters : Engage(m, a)
    \/ \E a \in StatusInvestigators, m \in CombatMonsters : AppendEngaged(a, m)
    \/ \E a \in StatusInvestigators, m \in CombatMonsters, horror \in 0..MaxAmount :
          CastSpell(a, m, horror)

SpecStatus == InitStatus /\ [][NextStatus]_vars

\* C27: health and sanity of an investigator are never negative, whatever
\* take_damage, lose_sanity, heal and restore_sanity calls with non-negative
\* amounts were made.
C27_VitalsNonNegative ==
    \A a \in Investigators : inv_health[a] >= 0 /\ inv_sanity[a] >= 0

\* C28: an investigator whose health or sanity is 0 is marked defeated, and
\* cast_spell of a defeated investigator raises and leaves the monster's
\* health as it was.
C28_DefeatedAtZero ==
    /\ [](\A a \in Investigators : CheckDefeat(a) => is_defeated[a])
    /\ [][\A a \in Investigators, m \in Monsters :
            (last'.op = "cast_spell" /\ last'.a = a /\ last'.m = m
                /\ (is_defeated[a] \/ CheckDefeat(a))) =>
            (last'.res # "ok" /\ health'[m] = health[m])]_vars

(* ------------------------- InvestigatorTokens ------------------------- *)

LedgerCall(op, a, token_type, amount, res) ==
    [op |-> op, a |-> a, token_type |-> token_type, arg |-> amount, res |-> res]

\* self.__focus_tokens[token_type]; InvestigatorItems._focus_tokens is the
\* same mapping
TokenCount(a, token_type) ==
    IF token_type = "money_tokens" THEN money_tokens[a] ELSE focus_tokens[a][token_type]

\* the frame of a call on the token mapping
LedgerFrame ==
    UNCHANGED <<combatVars, graphVars, inv_location, combat_location, lore_skill,
                doom_tokens, dispatchVars, callVars, dequeVars,
                inv_health, inv_sanity, is_defeated>>

\* self.__focus_tokens[token_type] = value
SetTokenCount(a, token_type, value) ==
    IF token_type = "money_tokens"
    THEN /\ money_tokens' = [money_tokens EXCEPT ![a] = value]
         /\ UNCHANGED focus_tokens
    ELSE /\ focus_tokens' = [focus_tokens EXCEPT ![a][token_type] = value]
         /\ UNCHANGED money_tokens

\* InvestigatorTokens.add_token: the key is validated, the amount is not
AddToken(a, token_type, amount) ==
    /\ token_type \in TokenTypes =>
          TokenCount(a, token_type) + amount \in (0 - MaxMoney)..MaxMoney
    /\ IF token_type \notin TokenTypes
       THEN /\ last' = LedgerCall("add_token", a, token_type, amount, "KeyError")
            /\ UNCHANGED <<money_tokens, focus_tokens>>
       ELSE /\ SetTokenCount(a, token_type, TokenCount(a, token_type) + amount)
            /\ last' = LedgerCall("add_token", a, token_type, amount, "ok")
    /\ UNCHANGED money
    /\ LedgerFrame

\* InvestigatorTokens.spend_token
SpendToken(a, token_type, amount) ==
    /\ IF amount < 0
       THEN /\ last' = LedgerCall("spend_token", a, token_type, amount, "NegativeValueError")
            /\ UNCHANGED <<money_tokens, focus_tokens>>
       ELSE IF token_type \notin TokenTypes
       THEN /\ last' = LedgerCall("spend_token", a, token_type, amount, "KeyError")
            /\ UNCHANGED <<money_tokens, focus_tokens>>
       ELSE IF TokenCount(a, token_type) < amount
       THEN /\ last' = LedgerCall("spend_token", a, token_type, amount, "ValueError")
            /\ UNCHANGED <<money_tokens, focus_tokens>>
       ELSE /\ SetTokenCount(a, token_type, TokenCount(a, token_type) - amount)
            /\ last' = LedgerCall("spend_token", a, token_type, amount, "ok")
    /\ UNCHANGED money
    /\ LedgerFrame

\* InvestigatorItems.spend_money: lowers the money tokens, not _money
SpendMoney(a, amount) ==
    /\ money_tokens[a] - amount <= MaxMoney
    /\ IF SpendMoneyRaises(money_tokens[a], amount)
       THEN /\ last' = LedgerCall("spend_money", a, "money_tokens", amount, "ValueError")
            /\ UNCHANGED money_tokens
       ELSE /\ money_tokens' = [money_tokens EXCEPT ![a] = @ - amount]
            /\ last' = LedgerCall("spend_money", a, "money_tokens", amount, "ok")
    /\ UNCHANGED <<money, focus_tokens>>
    /\ LedgerFrame

\* InvestigatorTokens.reset_tokens: every counter back to 0
ResetTokens(a) ==
    /\ money_tokens' = [money_tokens EXCEPT ![a] = 0]
    /\ focus_tokens' = [focus_tokens EXCEPT ![a] = [t \in DOMAIN @ |-> 0]]
    /\ last' = LedgerCall("reset_tokens", a, None, 0, "ok")
    /\ UNCHANGED money
    /\ LedgerFrame

\* the investigators whose tokens are exercised, and the token types handed
\* to add_token and spend_token ("gold_tokens" is not a key of the mapping)
LedgerInvestigators == {"a1"}
LedgerTypes == {"money_tokens", "clue_tokens", "gold_tokens"}

\* InvestigatorTokens.__init__ and InvestigatorItems.__new__: no token, no money
InitLedger ==
    /\ MonsterInit
    /\ health = [m \in Monsters |-> MaxHealth]
    /\ MoveInit
    /\ DispatchInit
    /\ CallInit
    /\ DequeInit
    /\ GraphInit
    /\ StatusInit

NextLedger ==
    \/ \E a \in LedgerInvestigators, t \in LedgerTypes, amount \in -1..MaxAmount :
          AddToken(a, t, amount)
    \/ \E a \in LedgerInvestigators, t \in LedgerTypes, amount \in -1..MaxAmount :
          SpendToken(a, t, amount)
    \/ \E a \in LedgerInvestigators, amount \in -1..MaxAmount : AddMoney(a, amount)
    \/ \E a \in LedgerInvestigators, amount \in -1..MaxAmount : SpendMoney(a, amount)
    \/ \E a \in LedgerInvestigators : ResetTokens(a)

SpecLedger == InitLedger /\ [][NextLedger]_vars

\* C29: each of the seven token counters is never negative, whatever
\* add_token, spend_token, add_money, spend_money and reset_tokens calls
\* were made; a call with a negative amount raises and changes no counter.
C29_CountersNonNegative ==
    /\ [](\A a \in Investigators, t \in TokenTypes : TokenCount(a, t) >= 0)
    /\ [][(last'.op \in {"add_token", "spend_token", "add_money", "spend_money"}
             /\ last'.arg < 0) =>
             (last'.res # "ok" /\ UNCHANGED <<money_tokens, focus_tokens>>)]_vars

(* --------------------------- Monster.attack --------------------------- *)

\* C30: Monster.attack returns the monster's fixed damage when its state is
\* engaged and raises when it is ready or exhausted; either way the
\* monster's health, state and prey are as before the call.
C30_AttackReturnsDamageOrRaises ==
    [][\A m \in Monsters :
        (last'.op = "attack" /\ last'.m = m) =>
            /\ IF stage[m] = "engaged"
               THEN last'.res = "ok" /\ last'.arg = Damage(m)
               ELSE last'.res # "ok"
            /\ health'[m] = health[m]
            /\ stage'[m] = stage[m]
            /\ engagement_stage'[m] = engagement_stage[m]
            /\ prey'[m] = prey[m]]_vars

\* an engaged monster with a prey has just attacked and returned its damage
C30_Witness ==
    /\ last.op = "attack"
    /\ last.res = "ok"
    /\ stage[last.m] = "engaged"
    /\ prey[last.m] # None
    /\ last.arg = Damage(last.m)

(* ----------------------- Deque: the end pointers ---------------------- *)

\* C32: the front pointer is None exactly when the rear pointer is None and
\* exactly when the size is 0; a dequeue that returns the sole item leaves
\* both pointers None.
C32_EndsNullTogether ==
    /\ []((front_items = 0) = (rear_items = 0) /\ (rear_items = 0) = (size = 0))
    /\ [][(last'.op \in {"dequeue_front", "dequeue_rear"} /\ last'.res = "ok"
             /\ size = 1) =>
             (front_items' = 0 /\ rear_items' = 0)]_vars

(* ---------------------- the engagement relation ----------------------- *)

\* C33: a monster is in an investigator's engaged list exactly when the
\* monster's state is engaged and its prey is that investigator.
C33_EngagementTwoSided ==
    \A a \in Investigators, m \in Monsters :
        InEngaged(a, m) <=> (stage[m] = "engaged" /\ prey[m] = a)

\* C34: a monster whose state is ready has no prey.
C34_ReadyHasNoPrey ==
    \A m \in Monsters : stage[m] = "ready" => prey[m] = None

(* ------------------------------- decks -------------------------------- *)

\* Deque.__new__ before its loop: no node, both ends None, size 0
EmptyDeque == [nodes |-> <<>>, front_items |-> 0, rear_items |-> 0, size |-> 0]

\* the loop of Deque.__new__(items): every item goes through enqueue_front
RECURSIVE DequeNewFrom(_, _)
DequeNewFrom(d, items) ==
    IF items = <<>> THEN d
    ELSE DequeNewFrom(enqueue_front(d, Head(items)), Tail(items))

\* Deque(items)
DequeNew(items) == DequeNewFrom(EmptyDeque, items)

\* the orders random.shuffle can leave a list of n cards in, as the old
\* position of the card at each new position
ShuffleOrders(n) ==
    {f \in [1..n -> 1..n] : \A i, j \in 1..n : f[i] = f[j] => i = j}

\* the list after the shuffle
Permute(cards, perm) == [i \in 1..Len(cards) |-> cards[perm[i]]]

\* the permutation that moves no card
Identity(n) == [i \in 1..n |-> i]

ShuffleCall(identity) ==
    [op |-> "shuffle", a |-> None, m |-> None, item |-> 0, arg |-> 0, res |-> "ok",
     identity |-> identity]

\* MonsterDeck.add_card_front, add_card_rear, draw_front and draw_rear hand
\* the call to the Deque (EventDeck and EncounterDeck do the same)
AddCardFront(card) == EnqueueFront(card)
AddCardRear(card) == EnqueueRear(card)
DrawFront == DequeueFront
DrawRear == DequeueRear

\* MonsterDeck.shuffle: list(self._cards), random.shuffle, Deque(cards). The
\* deck holds a new Deque afterwards (it has no attribute `rear` or `front`
\* yet), into which every card of the list was added; `reference` is the
\* shuffled list.
Shuffle ==
    /\ \E perm \in ShuffleOrders(Len(Contents(ThisDeque))) :
          LET cards == Permute(Contents(ThisDeque), perm)
              d == DequeNew(cards)
          IN  /\ nodes' = d.nodes
              /\ front_items' = d.front_items
              /\ rear_items' = d.rear_items
              /\ size' = d.size
              /\ unreturned' = 1..Len(d.nodes)
              /\ reference' = cards
              /\ last' = ShuffleCall(perm = Identity(Len(cards)))
    /\ rear' = 0
    /\ front' = 0
    /\ UNCHANGED <<combatVars, graphVars, statusVars, moveVars, dispatchVars, callVars>>

NextDeck ==
    \/ \E card \in Items : AddCardFront(card)
    \/ \E card \in Items : AddCardRear(card)
    \/ DrawFront
    \/ DrawRear
    \/ Shuffle

SpecDeck == InitDeque /\ [][NextDeck]_vars

\* C35: no card is drawn twice: a draw that returns hands out a card that
\* was added and not returned since, and the draws that returned never
\* outnumber the cards added (the size, their difference, is never negative).
C35_NoCardDrawnTwice ==
    /\ [][(last'.op = "dequeue_front" /\ last'.res = "ok") =>
             front_items \in unreturned]_vars
    /\ [][(last'.op = "dequeue_rear" /\ last'.res = "ok") =>
             rear_items \in unreturned]_vars
    /\ [](size >= 0)

\* C36: Deque(items) holds the items from front to rear in the order given:
\* a shuffle with the identity permutation leaves the cards in the order
\* they had, and every shuffle leaves each card as many times as before.
C36_ShuffleKeepsCards ==
    /\ [][(last'.op = "shuffle" /\ last'.identity) =>
             Contents(ThisDeque)' = Contents(ThisDeque)]_vars
    /\ [][last'.op = "shuffle" =>
             \A card \in Items :
                Occurrences(Contents(ThisDeque)', card)
                    = Occurrences(Contents(ThisDeque), card)]_vars

(* ------------------------------- money -------------------------------- *)

\* C37: an investigator's money and its money tokens are equal in every
\* reachable state: add_money and spend_money (the charge of a move
\* included) change both by the same amount.
C37_MoneyEqualsTokens ==
    \A a \in Investigators : money[a] = money_tokens[a]

\* the setter of InvestigatorItems.money: it subtracts the value it is given
MoneySetter(current, value) == current - value

TradeCall(inv, ally, amount, res) ==
    [op |-> "trade_money", a |-> inv, ally |-> ally, arg |-> amount, res |-> res]

\* Trade._trade_money(inv, ally, money): the two tests, then
\* `inv._inv_items.money -= money` (the getter, the subtraction, the setter
\* with the difference) and ally._inv_items.add_money(money)
TradeMoney(inv, ally, amount) ==
    /\ (amount >= 0 /\ amount <= money[inv]) =>
          (money[ally] + amount <= MaxMoney /\ money_tokens[ally] + amount <= MaxMoney)
    /\ IF amount > money[inv]
       THEN /\ last' = TradeCall(inv, ally, amount, "ValueError")
            /\ UNCHANGED <<money, money_tokens>>
       ELSE IF amount < 0
       THEN /\ last' = TradeCall(inv, ally, amount, "NegativeValueError")
            /\ UNCHANGED <<money, money_tokens>>
       ELSE /\ LET paid == [money EXCEPT
                              ![inv] = MoneySetter(money[inv], money[inv] - amount)]
               IN  money' = [paid EXCEPT ![ally] = @ + amount]
            /\ money_tokens' = [money_tokens EXCEPT ![ally] = @ + amount]
            /\ last' = TradeCall(inv, ally, amount, "ok")
    /\ UNCHANGED <<combatVars, graphVars, statusVars, inv_location, combat_location,
                   lore_skill, doom_tokens, dispatchVars, callVars, dequeVars>>

NextTrade ==
    \/ \E a \in Investigators, amount \in -1..MaxMoney :
          /\ money_tokens[a] + amount <= MaxMoney
          /\ AddMoney(a, amount)
    \/ \E inv, ally \in Investigators, amount \in -1..MaxMoney :
          /\ inv # ally
          /\ TradeMoney(inv, ally, amount)

SpecTrade == InitLedger /\ [][NextTrade]_vars

\* C38: a trade of `amount` money with 0 <= amount <= balance returns,
\* lowers the investigator's money by exactly the amount, raises the ally's
\* by exactly the amount and keeps the sum of the two; a trade of more than
\* the balance raises.
C38_TradeConservesMoney ==
    [][\A inv, ally \in Investigators :
        (last'.op = "trade_money" /\ last'.a = inv /\ last'.ally = ally) =>
            IF last'.arg > money[inv]
            THEN last'.res # "ok" /\ UNCHANGED money
            ELSE last'.arg >= 0 =>
                    /\ last'.res = "ok"
                    /\ money'[inv] = money[inv] - last'.arg
                    /\ money'[ally] = money[ally] + last'.arg
                    /\ money'[inv] + money'[ally] = money[inv] + money[ally]]_vars

====
